---------------------------- MODULE Spec2Model ----------------------------
(***************************************************************************)
(* Model of the BME69x sequential-mode example                             *)
(* (examples/sequential_mode/sequential_mode.c) and of the COINES bridge   *)
(* it is linked with (examples/common/common.c).                           *)
(*                                                                         *)
(* main() is a straight-line program followed by one acquisition loop; pc  *)
(* is its position.  The sensor driver (bme69x.c) and the sensor itself    *)
(* are not part of these sources: their effect is modelled from the        *)
(* written specification and kept in `sensor`.                             *)
(***************************************************************************)
EXTENDS Integers, Sequences, FiniteSets, TLC

VARIABLES
    pc,            \* position of main(), or "api" / "exited"
    rslt,          \* int8_t rslt of main (last return code)
    msg,           \* what bme69x_check_rslt printed for the last code
    bme,           \* struct bme69x_dev, one per handle
    dev_addr,      \* static uint8_t dev_addr of common.c
    init_ok,       \* handles for which bme69x_interface_init returned BME69X_OK
    conf,          \* struct bme69x_conf conf of main
    heatr_conf,    \* struct bme69x_heatr_conf heatr_conf of main
    del_period,    \* uint32_t del_period of main
    delayed,       \* microseconds slept through bme.delay_us since the last
                   \* set_op_mode / get_data
    n_fields,      \* uint8_t n_fields of main
    data,          \* gas_index of struct bme69x_data data[3] of main
    sample_count,  \* uint16_t sample_count of main
    printed,       \* gas_index of the records printed by the last for loop
    n_printed,     \* number of records printed by the last for loop
    polls,         \* number of bme69x_get_data calls made so far
    failed,        \* the set-up calls of main that returned an error code
    deinit_calls,  \* number of bme69x_coines_deinit calls made so far
    last,          \* the last call a direct caller of the API made: its
                   \* arguments, the bus transactions it issued, its result
    sensor         \* the device as seen through the driver

vars == <<pc, rslt, msg, bme, dev_addr, init_ok, conf, heatr_conf, del_period,
          delayed, n_fields, data, sample_count, printed, n_printed, polls,
          failed, deinit_calls, last, sensor>>

---------------------------------------------------------------------------
(* Bounds of the model *)

\* bme69x_get_data calls explored in one run of main (the loop itself has no
\* retry ceiling)
MaxPolls == 4

\* handles the API harness initialises
NumHandles == 2

\* longest heater profile a direct caller passes to bme69x_set_heatr_conf
MaxProfileLen == 11

---------------------------------------------------------------------------
(* Program constants *)

SAMPLE_COUNT == 300

\* number of elements of data[] in main
DataLen == 3

Handles == 1 .. NumHandles

\* the handle main() declares
MainHandle == 1

\* values of the uint8_t intf argument: the two selectors of bme69x_defs.h and
\* any other value
IntfValues == {"BME69X_SPI_INTF", "BME69X_I2C_INTF", "INTF_OTHER"}

\* heater tables of main
temp_prof == <<200, 240, 280, 320, 360, 360, 320, 280, 240, 200>>
dur_prof  == <<100, 100, 100, 100, 100, 100, 100, 100, 100, 100>>

\* contents of an object that was never written
Uninit == "uninit"

\* no call has been made through the API yet
NoCall == [api |-> "none"]

Min(a, b) == IF a < b THEN a ELSE b

\* uint16_t arithmetic
U16(x) == x % 65536

---------------------------------------------------------------------------
(* common.c *)

\* the NULL pointer, as a handle
NullHandle == 0

\* a struct bme69x_dev nobody has written yet
UninitHandle ==
    [read |-> Uninit, write |-> Uninit, delay_us |-> Uninit,
     intf_ptr |-> Uninit, intf |-> Uninit, amb_temp |-> Uninit]

\* the value bme69x_interface_init leaves in the static dev_addr
DevAddrAfterInit(old, intf) ==
    CASE intf = "BME69X_I2C_INTF" -> "BME69X_I2C_ADDR_LOW"
      [] intf = "BME69X_SPI_INTF" -> "COINES_SHUTTLE_PIN_7"
      [] OTHER -> old

\* an initialisation that installs the delay and intf_ptr but no bus callback
HandleAfterInitNoBus(hd, intf) ==
    [hd EXCEPT !.delay_us = "bme69x_delay_us",
               !.intf_ptr = "&dev_addr",
               !.amb_temp = 25]

\* the fields bme69x_interface_init writes into *bme
HandleAfterInit(hd, intf) ==
    LET bus == CASE intf = "BME69X_I2C_INTF" ->
                        [hd EXCEPT !.read = "bme69x_i2c_read",
                                   !.write = "bme69x_i2c_write",
                                   !.intf = "BME69X_I2C_INTF"]
                 [] intf = "BME69X_SPI_INTF" ->
                        [hd EXCEPT !.read = "bme69x_spi_read",
                                   !.write = "bme69x_spi_write",
                                   !.intf = "BME69X_SPI_INTF"]
                 [] OTHER -> hd
    IN  [bus EXCEPT !.delay_us = "bme69x_delay_us",
                    !.intf_ptr = "&dev_addr",
                    !.amb_temp = 25]

\* whether bme69x_interface_init leaves through exit(result): the handle is not
\* NULL and coines_open_comm_intf failed (opened = FALSE)
InterfaceInitExits(h, opened) == h # NullHandle /\ ~opened

\* int8_t bme69x_interface_init(struct bme69x_dev *bme, uint8_t intf), when it
\* returns: the return code and the writes to *bme and dev_addr
bme69x_interface_init(h, intf) ==
    IF h = NullHandle
    THEN /\ rslt' = "BME69X_E_NULL_PTR"
         /\ UNCHANGED <<bme, dev_addr, init_ok>>
    ELSE /\ dev_addr' = DevAddrAfterInit(dev_addr, intf)
         /\ bme' = [bme EXCEPT ![h] = HandleAfterInit(@, intf)]
         /\ rslt' = "BME69X_OK"
         /\ init_ok' = init_ok \cup {h}

\* what bme69x_check_rslt prints for a return code
CheckRsltMessage(r) ==
    CASE r = "BME69X_OK"               -> "none"
      [] r = "BME69X_E_NULL_PTR"       -> "Error: Null pointer"
      [] r = "BME69X_E_COM_FAIL"       -> "Error: Communication failure"
      [] r = "BME69X_E_INVALID_LENGTH" -> "Error: Incorrect length parameter"
      [] r = "BME69X_E_DEV_NOT_FOUND"  -> "Error: Device not found"
      [] r = "BME69X_E_SELF_TEST"      -> "Error: Self test error"
      [] r = "BME69X_W_NO_NEW_DATA"    -> "Warning: No new data found"
      [] OTHER                         -> "Error: Unknown error code"

\* bme69x_check_rslt as it would be if a code other than BME69X_OK ended the
\* process
CheckRsltExitsOnNonZero(r) == r # "BME69X_OK"

\* whether bme69x_check_rslt ends the process for a return code: every case of
\* its switch prints (or does nothing) and breaks
CheckRsltExits(r) == FALSE

\* main's position after  rslt = f(...); bme69x_check_rslt("f", rslt);
AfterCheck(r, next) == IF CheckRsltExits(r) THEN "exited" ELSE next

\* the device address a bus callback of handle record hd reads through
\* intf_ptr, da being the content of the static dev_addr
AddrUsedBy(hd, da) == IF hd.intf_ptr = "&dev_addr" THEN da ELSE Uninit

\* the four bus callbacks
Shims == {"bme69x_i2c_read", "bme69x_i2c_write", "bme69x_spi_read", "bme69x_spi_write"}

\* the COINES call each callback makes
CoinesFn(shim) ==
    CASE shim = "bme69x_i2c_read" -> "coines_read_i2c"
      [] shim = "bme69x_i2c_write" -> "coines_write_i2c"
      [] shim = "bme69x_spi_read" -> "coines_read_spi"
      [] shim = "bme69x_spi_write" -> "coines_write_spi"

\* the bus transactions one call shim(reg_addr, reg_data, len, intf_ptr)
\* issues, device_addr being the byte read through intf_ptr: one COINES call,
\* its count being (uint16_t)len
ShimTransactions(shim, device_addr, reg_addr, len) ==
    << [fn |-> CoinesFn(shim), dev_addr |-> device_addr, reg_addr |-> reg_addr,
        count |-> U16(len)] >>

\* what the callback returns, coines_rslt being the COINES call's result
ShimReturn(coines_rslt) == coines_rslt

---------------------------------------------------------------------------
(* The driver (bme69x.c) and the sensor behind it, modelled from the      *)
(* written specification.                                                  *)

\* struct bme69x_conf as main fills it in: os_* are the oversampling codes
\* 0..5 (OFF, 1x, 2x, 4x, 8x, 16x), filter 0 is OFF, odr 8 is NONE
ExampleConf == [os_hum |-> 5, os_pres |-> 1, os_temp |-> 2, filter |-> 0, odr |-> 8]

\* the sensor's settings after its power-on reset
ResetConf == [os_hum |-> 0, os_pres |-> 0, os_temp |-> 0, filter |-> 0, odr |-> 0]

\* settings the sensor may hold before main applies its own
InitialConfs == {ResetConf, [ExampleConf EXCEPT !.os_hum = 1]}

\* the driver's null check: the handle has its bus callbacks and delay
HandleUsable(hd) ==
    /\ hd.read # Uninit
    /\ hd.write # Uninit
    /\ hd.delay_us # Uninit

\* oversampling codes BME69X_OS_NONE .. BME69X_OS_16X
OsCodes == 0 .. 5

\* IIR filter codes BME69X_FILTER_OFF .. BME69X_FILTER_SIZE_127
FilterCodes == 0 .. 7

\* the oversampling fields of struct bme69x_conf
OsFields == {"os_temp", "os_pres", "os_hum"}

\* a cycle table in which 16x costs no more than 8x
OsToMeasCyclesSaturating(os) == <<0, 1, 2, 4, 8, 8>>[os + 1]

\* measurement cycles of an oversampling code
OsToMeasCycles(os) == <<0, 1, 2, 4, 8, 16>>[os + 1]

\* uint32_t bme69x_get_meas_dur(op_mode, conf, dev): microseconds, the vendor
\* formula (per-stage cycles summed, times the cycle time, plus the fixed
\* switching, gas and wake-up durations); the filter does not enter it
bme69x_get_meas_dur(op_mode, c) ==
    LET meas_cycles == OsToMeasCycles(c.os_temp) + OsToMeasCycles(c.os_pres)
                       + OsToMeasCycles(c.os_hum)
    IN  meas_cycles * 1963 + 477 * 4 + 477 * 5
        + (IF op_mode # "BME69X_PARALLEL_MODE" THEN 1000 ELSE 0)

\* return codes of bme69x_init
InitResults(hd) ==
    IF ~HandleUsable(hd) THEN {"BME69X_E_NULL_PTR"}
    ELSE {"BME69X_OK", "BME69X_E_COM_FAIL", "BME69X_E_DEV_NOT_FOUND"}

\* return codes of bme69x_get_conf
GetConfResults(hd) ==
    IF ~HandleUsable(hd) THEN {"BME69X_E_NULL_PTR"}
    ELSE {"BME69X_OK", "BME69X_E_COM_FAIL"}

\* return codes of bme69x_set_conf
SetConfResults(hd) ==
    IF ~HandleUsable(hd) THEN {"BME69X_E_NULL_PTR"}
    ELSE {"BME69X_OK", "BME69X_E_COM_FAIL", "BME69X_E_INVALID_LENGTH"}

\* return codes of bme69x_set_heatr_conf: the profile length is validated
\* (1 .. 10 steps) before anything is written
SetHeatrConfResults(hd, hc) ==
    IF ~HandleUsable(hd) THEN {"BME69X_E_NULL_PTR"}
    ELSE IF hc.profile_len < 1 \/ hc.profile_len > 10 THEN {"BME69X_E_INVALID_LENGTH"}
    ELSE {"BME69X_OK", "BME69X_E_COM_FAIL"}

\* return codes of bme69x_set_op_mode
SetOpModeResults(hd) ==
    IF ~HandleUsable(hd) THEN {"BME69X_E_NULL_PTR"}
    ELSE {"BME69X_OK", "BME69X_E_COM_FAIL"}

\* the heater step the sensor stamps on its k-th measurement
GasIndex(sens, k) == IF sens.profile_len = 0 THEN 0 ELSE k % sens.profile_len

\* the fields a poll fills in: the first `fresh` entries of data[] get the
\* sensor's next measurements, the others keep what they held
FieldsAfterRead(sens, dat, fresh) ==
    [i \in 1 .. DataLen |->
        IF i <= fresh THEN GasIndex(sens, sens.cursor + i - 1) ELSE dat[i]]

\* bme69x_get_data(BME69X_SEQUENTIAL_MODE, data, &n_fields, &bme): every
\* outcome of one poll.  A failure returns no count: *n_data is either left
\* as it was or cleared.  A read that succeeds reports how many fields are
\* new, none being the warning BME69X_W_NO_NEW_DATA.
GetDataOutcomes(hd, sens, nf, dat) ==
    IF ~HandleUsable(hd)
    THEN {[rslt |-> "BME69X_E_NULL_PTR", n_fields |-> nf, data |-> dat, sensor |-> sens]}
    ELSE
      {[rslt |-> r, n_fields |-> n, data |-> dat, sensor |-> sens] :
          r \in {"BME69X_E_COM_FAIL", "BME69X_E_INVALID_LENGTH"}, n \in {nf, 0}}
      \cup
      {[rslt |-> "BME69X_W_NO_NEW_DATA", n_fields |-> 0, data |-> dat, sensor |-> sens]}
      \cup
      {[rslt |-> "BME69X_OK", n_fields |-> fresh,
        data |-> FieldsAfterRead(sens, dat, fresh),
        sensor |-> [sens EXCEPT !.cursor = GasIndex(sens, sens.cursor + fresh)]] :
          fresh \in (IF sens.op_mode = "BME69X_SEQUENTIAL_MODE" THEN 1 .. DataLen ELSE {})}

---------------------------------------------------------------------------
(* sequential_mode.c: main *)

\* values an automatic variable of main may hold before it is first written
StackGarbage == {0, 2, 255}

\* void bme69x_delay_us(uint32_t period, void *intf_ptr): the microseconds it
\* blocks for (coines_delay_usec(period))
bme69x_delay_us(period) == period

\* bme.delay_us(period, bme.intf_ptr): the microseconds the call through the
\* handle's callback blocks for (main's handle always holds bme69x_delay_us
\* when the loop runs; no time is counted for any other pointer)
DelayThrough(hd, period) ==
    IF hd.delay_us = "bme69x_delay_us" THEN bme69x_delay_us(period) ELSE 0

\* del_period as it would be with the first step's milliseconds added unscaled
DelPeriodUnscaled(c, hc) ==
    bme69x_get_meas_dur("BME69X_SEQUENTIAL_MODE", c) + hc.heatr_dur_prof[1]

\* del_period of one loop pass: bme69x_get_meas_dur(...) +
\* (heatr_conf.heatr_dur_prof[0] * 1000).  The product is an int of at most
\* 65535 * 1000 and the duration at most 48 * 1963 + 5293, so the uint32_t
\* sum never wraps.
DelPeriod(c, hc) ==
    bme69x_get_meas_dur("BME69X_SEQUENTIAL_MODE", c) + hc.heatr_dur_prof[1] * 1000

\* heatr_conf as it would be with a length one beyond main's tables
MainHeatrConfTooLong ==
    [enable |-> "BME69X_ENABLE", heatr_temp_prof |-> temp_prof,
     heatr_dur_prof |-> dur_prof, profile_len |-> 11]

\* heatr_conf as main fills it in before bme69x_set_heatr_conf
MainHeatrConf ==
    [enable |-> "BME69X_ENABLE", heatr_temp_prof |-> temp_prof,
     heatr_dur_prof |-> dur_prof, profile_len |-> 10]

\* the records one pass of the for loop prints: data[i] for i < n_fields (only
\* the DataLen elements data[] has are recorded)
RecordsPrinted(nf, dat) == [i \in 1 .. Min(nf, DataLen) |-> dat[i]]

\* a for loop that prints without counting
SampleCountKept(sc, nf) == sc

\* sample_count after the for loop: one increment per record printed
SampleCountAfter(sc, nf) == U16(sc + nf)

\* the return codes that are errors: negative, unlike BME69X_OK and the
\* warning BME69X_W_NO_NEW_DATA
IsError(r) == r \notin {"BME69X_OK", "BME69X_W_NO_NEW_DATA"}

\* the set-up calls that have failed, once `api` has returned r
FailedAfter(api, r) == IF IsError(r) THEN failed \cup {api} ELSE failed

MainInit ==
    /\ pc = "interface_init"
    /\ rslt = Uninit
    /\ msg = "none"
    /\ bme = [h \in Handles |-> UninitHandle]
    /\ dev_addr = "0"
    /\ init_ok = {}
    /\ conf = Uninit
    /\ heatr_conf = Uninit
    /\ del_period = Uninit
    /\ delayed = 0
    /\ n_fields \in StackGarbage
    /\ \E g \in StackGarbage : data = [i \in 1 .. DataLen |-> g]
    /\ sample_count = 1
    /\ printed = <<>>
    /\ n_printed = 0
    /\ polls = 0
    /\ failed = {}
    /\ deinit_calls = 0
    /\ last = NoCall
    /\ \E c \in InitialConfs :
          sensor = [conf |-> c, profile_len |-> 0,
                    op_mode |-> "BME69X_SLEEP_MODE", cursor |-> 0]

\* rslt = bme69x_interface_init(&bme, BME69X_I2C_INTF); bme69x_check_rslt(...)
InterfaceInit ==
    /\ pc = "interface_init"
    /\ \E opened \in BOOLEAN :
          IF InterfaceInitExits(MainHandle, opened)
          THEN /\ pc' = "exited"
               /\ UNCHANGED <<rslt, msg, bme, dev_addr, init_ok>>
          ELSE /\ bme69x_interface_init(MainHandle, "BME69X_I2C_INTF")
               /\ msg' = CheckRsltMessage(rslt')
               /\ pc' = AfterCheck(rslt', "init")
    /\ UNCHANGED <<conf, heatr_conf, del_period, delayed, n_fields, data,
                   sample_count, printed, n_printed, polls, failed, sensor>>
    /\ UNCHANGED <<deinit_calls, last>>

\* rslt = bme69x_init(&bme); bme69x_check_rslt(...)
DriverInit ==
    /\ pc = "init"
    /\ rslt' \in InitResults(bme[MainHandle])
    /\ failed' = FailedAfter("bme69x_init", rslt')
    /\ msg' = CheckRsltMessage(rslt')
    /\ pc' = AfterCheck(rslt', "get_conf")
    /\ UNCHANGED <<bme, dev_addr, init_ok, conf, heatr_conf, del_period, delayed,
                   n_fields, data, sample_count, printed, n_printed, polls, sensor>>
    /\ UNCHANGED <<deinit_calls, last>>

\* rslt = bme69x_get_conf(&conf, &bme); bme69x_check_rslt(...)
GetConf ==
    /\ pc = "get_conf"
    /\ rslt' \in GetConfResults(bme[MainHandle])
    /\ conf' = IF rslt' = "BME69X_OK" THEN sensor.conf ELSE conf
    /\ msg' = CheckRsltMessage(rslt')
    /\ pc' = AfterCheck(rslt', "set_conf")
    /\ UNCHANGED <<bme, dev_addr, init_ok, heatr_conf, del_period, delayed,
                   n_fields, data, sample_count, printed, n_printed, polls, failed, sensor>>
    /\ UNCHANGED <<deinit_calls, last>>

\* conf.filter = ...; ... conf.os_temp = ...; rslt = bme69x_set_conf(&conf, &bme);
\* bme69x_check_rslt(...)
SetConf ==
    /\ pc = "set_conf"
    /\ conf' = ExampleConf
    /\ rslt' \in SetConfResults(bme[MainHandle])
    /\ sensor' = IF rslt' = "BME69X_OK" THEN [sensor EXCEPT !.conf = conf'] ELSE sensor
    /\ failed' = FailedAfter("bme69x_set_conf", rslt')
    /\ msg' = CheckRsltMessage(rslt')
    /\ pc' = AfterCheck(rslt', "set_heatr_conf")
    /\ UNCHANGED <<bme, dev_addr, init_ok, heatr_conf, del_period, delayed,
                   n_fields, data, sample_count, printed, n_printed, polls>>
    /\ UNCHANGED <<deinit_calls, last>>

\* heatr_conf.enable = ...; ... heatr_conf.profile_len = 10;
\* rslt = bme69x_set_heatr_conf(BME69X_SEQUENTIAL_MODE, &heatr_conf, &bme);
\* bme69x_check_rslt(...)
SetHeatrConf ==
    /\ pc = "set_heatr_conf"
    /\ heatr_conf' = MainHeatrConf
    /\ rslt' \in SetHeatrConfResults(bme[MainHandle], heatr_conf')
    /\ sensor' = IF rslt' = "BME69X_OK"
                 THEN [sensor EXCEPT !.profile_len = heatr_conf'.profile_len]
                 ELSE sensor
    /\ failed' = FailedAfter("bme69x_set_heatr_conf", rslt')
    /\ msg' = CheckRsltMessage(rslt')
    /\ pc' = AfterCheck(rslt', "set_op_mode")
    /\ UNCHANGED <<bme, dev_addr, init_ok, conf, del_period, delayed,
                   n_fields, data, sample_count, printed, n_printed, polls>>
    /\ UNCHANGED <<deinit_calls, last>>

\* rslt = bme69x_set_op_mode(BME69X_SEQUENTIAL_MODE, &bme); bme69x_check_rslt(...)
SetOpMode ==
    /\ pc = "set_op_mode"
    /\ rslt' \in SetOpModeResults(bme[MainHandle])
    /\ sensor' = IF rslt' = "BME69X_OK"
                 THEN [sensor EXCEPT !.op_mode = "BME69X_SEQUENTIAL_MODE", !.cursor = 0]
                 ELSE sensor
    /\ delayed' = 0
    /\ failed' = FailedAfter("bme69x_set_op_mode", rslt')
    /\ msg' = CheckRsltMessage(rslt')
    /\ pc' = AfterCheck(rslt', "while")
    /\ UNCHANGED <<bme, dev_addr, init_ok, conf, heatr_conf, del_period,
                   n_fields, data, sample_count, printed, n_printed, polls>>
    /\ UNCHANGED <<deinit_calls, last>>

\* while (sample_count <= SAMPLE_COUNT) { del_period = ...;
\* bme.delay_us(del_period, bme.intf_ptr); time_ms = coines_get_millis();
LoopDelay ==
    /\ pc = "while"
    /\ sample_count <= SAMPLE_COUNT
    /\ polls < MaxPolls
    /\ del_period' = DelPeriod(conf, heatr_conf)
    /\ delayed' = delayed + DelayThrough(bme[MainHandle], del_period')
    /\ pc' = "get_data"
    /\ UNCHANGED <<rslt, msg, bme, dev_addr, init_ok, conf, heatr_conf,
                   n_fields, data, sample_count, printed, n_printed, polls, failed, sensor>>
    /\ UNCHANGED <<deinit_calls, last>>

\* rslt = bme69x_get_data(BME69X_SEQUENTIAL_MODE, data, &n_fields, &bme);
\* bme69x_check_rslt(...)
GetData ==
    /\ pc = "get_data"
    /\ \E o \in GetDataOutcomes(bme[MainHandle], sensor, n_fields, data) :
          /\ rslt' = o.rslt
          /\ n_fields' = o.n_fields
          /\ data' = o.data
          /\ sensor' = o.sensor
    /\ delayed' = 0
    /\ polls' = polls + 1
    /\ msg' = CheckRsltMessage(rslt')
    /\ pc' = AfterCheck(rslt', "for")
    /\ UNCHANGED <<bme, dev_addr, init_ok, conf, heatr_conf, del_period,
                   sample_count, printed, n_printed, failed>>
    /\ UNCHANGED <<deinit_calls, last>>

\* for (uint8_t i = 0; i < n_fields; i++) { printf(...); sample_count++; } }
PrintRecords ==
    /\ pc = "for"
    /\ printed' = RecordsPrinted(n_fields, data)
    /\ n_printed' = n_fields
    /\ sample_count' = SampleCountAfter(sample_count, n_fields)
    /\ pc' = "while"
    /\ UNCHANGED <<rslt, msg, bme, dev_addr, init_ok, conf, heatr_conf, del_period,
                   delayed, n_fields, data, polls, failed, sensor>>
    /\ UNCHANGED <<deinit_calls, last>>

\* the while condition is false
LoopExit ==
    /\ pc = "while"
    /\ sample_count > SAMPLE_COUNT
    /\ pc' = "deinit"
    /\ UNCHANGED <<rslt, msg, bme, dev_addr, init_ok, conf, heatr_conf, del_period,
                   delayed, n_fields, data, sample_count, printed, n_printed,
                   polls, failed, sensor>>
    /\ UNCHANGED <<deinit_calls, last>>

\* bme69x_coines_deinit(); return 0;
Deinit ==
    /\ pc = "deinit"
    /\ deinit_calls' = deinit_calls + 1
    /\ pc' = "done"
    /\ UNCHANGED <<rslt, msg, bme, dev_addr, init_ok, conf, heatr_conf, del_period,
                   delayed, n_fields, data, sample_count, printed, n_printed,
                   polls, failed, sensor>>
    /\ UNCHANGED last

Init == MainInit

Next ==
    \/ InterfaceInit
    \/ DriverInit
    \/ GetConf
    \/ SetConf
    \/ SetHeatrConf
    \/ SetOpMode
    \/ LoopDelay
    \/ GetData
    \/ PrintRecords
    \/ LoopExit
    \/ Deinit

Spec == Init /\ [][Next]_vars

---------------------------------------------------------------------------
(* sequential_mode.c: the acquisition loop of main on its own, entered     *)
(* after a set-up in which every call succeeded, with a transport that     *)
(* does not fail; the number of polls is not limited.                      *)

\* main at the first test of the while condition, every set-up call having
\* returned BME69X_OK
LoopEntry ==
    /\ pc = "while"
    /\ rslt = "BME69X_OK"
    /\ msg = "none"
    /\ bme = [h \in Handles |->
                 IF h = MainHandle
                 THEN HandleAfterInit(UninitHandle, "BME69X_I2C_INTF")
                 ELSE UninitHandle]
    /\ dev_addr = DevAddrAfterInit("0", "BME69X_I2C_INTF")
    /\ init_ok = {MainHandle}
    /\ conf = ExampleConf
    /\ heatr_conf = MainHeatrConf
    /\ del_period = Uninit
    /\ delayed = 0
    /\ n_fields \in StackGarbage
    /\ \E g \in StackGarbage : data = [i \in 1 .. DataLen |-> g]
    /\ sample_count = 1
    /\ printed = <<>>
    /\ n_printed = 0
    /\ polls = 0
    /\ failed = {}
    /\ deinit_calls = 0
    /\ last = NoCall
    /\ sensor = [conf |-> ExampleConf, profile_len |-> MainHeatrConf.profile_len,
                 op_mode |-> "BME69X_SEQUENTIAL_MODE", cursor |-> 0]

\* the outcomes of a poll whose bus transfers all succeed
TransferredOutcomes(hd, sens, nf, dat) ==
    {o \in GetDataOutcomes(hd, sens, nf, dat) : ~IsError(o.rslt)}

\* while (sample_count <= SAMPLE_COUNT) { del_period = ...;
\* bme.delay_us(del_period, bme.intf_ptr); time_ms = coines_get_millis();
SteadyLoopDelay ==
    /\ pc = "while"
    /\ sample_count <= SAMPLE_COUNT
    /\ del_period' = DelPeriod(conf, heatr_conf)
    /\ delayed' = delayed + DelayThrough(bme[MainHandle], del_period')
    /\ pc' = "get_data"
    /\ UNCHANGED <<rslt, msg, bme, dev_addr, init_ok, conf, heatr_conf,
                   n_fields, data, sample_count, printed, n_printed, polls, failed,
                   deinit_calls, last, sensor>>

\* rslt = bme69x_get_data(...); bme69x_check_rslt(...): the poll finds at
\* least one new field
SteadyPollNew ==
    /\ pc = "get_data"
    /\ \E o \in TransferredOutcomes(bme[MainHandle], sensor, n_fields, data) :
          /\ o.n_fields > 0
          /\ rslt' = o.rslt
          /\ n_fields' = o.n_fields
          /\ data' = o.data
          /\ sensor' = o.sensor
    /\ delayed' = 0
    /\ msg' = CheckRsltMessage(rslt')
    /\ pc' = AfterCheck(rslt', "for")
    /\ UNCHANGED <<bme, dev_addr, init_ok, conf, heatr_conf, del_period,
                   sample_count, printed, n_printed, polls, failed,
                   deinit_calls, last>>

\* rslt = bme69x_get_data(...); bme69x_check_rslt(...): the poll finds
\* nothing new
SteadyPollEmpty ==
    /\ pc = "get_data"
    /\ \E o \in TransferredOutcomes(bme[MainHandle], sensor, n_fields, data) :
          /\ o.n_fields = 0
          /\ rslt' = o.rslt
          /\ n_fields' = o.n_fields
          /\ data' = o.data
          /\ sensor' = o.sensor
    /\ delayed' = 0
    /\ msg' = CheckRsltMessage(rslt')
    /\ pc' = AfterCheck(rslt', "for")
    /\ UNCHANGED <<bme, dev_addr, init_ok, conf, heatr_conf, del_period,
                   sample_count, printed, n_printed, polls, failed,
                   deinit_calls, last>>

NextLoop ==
    \/ SteadyLoopDelay
    \/ SteadyPollNew
    \/ SteadyPollEmpty
    \/ PrintRecords
    \/ LoopExit
    \/ Deinit

SpecLoop == LoopEntry /\ [][NextLoop]_vars

\* the loop with a program that keeps running and a sensor that, polled again
\* and again, again and again has at least one new field
SpecLoopFair ==
    /\ LoopEntry
    /\ [][NextLoop]_vars
    /\ WF_vars(NextLoop)
    /\ SF_vars(SteadyPollNew)
---------------------------------------------------------------------------
(* common.c called directly: any caller, any handle, any selector *)

ApiInit ==
    /\ pc = "api"
    /\ rslt = Uninit
    /\ msg = "none"
    /\ bme = [h \in Handles |-> UninitHandle]
    /\ dev_addr = "0"
    /\ init_ok = {}
    /\ conf = Uninit
    /\ heatr_conf = Uninit
    /\ del_period = Uninit
    /\ delayed = 0
    /\ n_fields = 0
    /\ data = [i \in 1 .. DataLen |-> 0]
    /\ sample_count = 1
    /\ printed = <<>>
    /\ n_printed = 0
    /\ polls = 0
    /\ failed = {}
    /\ deinit_calls = 0
    /\ last = NoCall
    /\ sensor = [conf |-> ResetConf, profile_len |-> 0,
                 op_mode |-> "BME69X_SLEEP_MODE", cursor |-> 0]

\* rslt = bme69x_interface_init(bme, intf) on any handle (or NULL) with any
\* value of the selector
ApiInterfaceInit ==
    /\ pc = "api"
    /\ \E h \in Handles \cup {NullHandle}, intf \in IntfValues, opened \in BOOLEAN :
          /\ last' = [api |-> "bme69x_interface_init", h |-> h, intf |-> intf]
          /\ IF InterfaceInitExits(h, opened)
             THEN /\ pc' = "exited"
                  /\ UNCHANGED <<rslt, bme, dev_addr, init_ok>>
             ELSE /\ bme69x_interface_init(h, intf)
                  /\ pc' = "api"
    /\ UNCHANGED <<msg, conf, heatr_conf, del_period, delayed, n_fields, data,
                   sample_count, printed, n_printed, polls, failed, sensor>>
    /\ UNCHANGED deinit_calls

\* bme69x_check_rslt(api_name, rslt) on the last return code
ApiCheckRslt ==
    /\ pc = "api"
    /\ rslt # Uninit
    /\ msg' = CheckRsltMessage(rslt)
    /\ pc' = AfterCheck(rslt, "api")
    /\ UNCHANGED <<rslt, bme, dev_addr, init_ok, conf, heatr_conf, del_period,
                   delayed, n_fields, data, sample_count, printed, n_printed,
                   polls, failed, sensor>>
    /\ UNCHANGED <<deinit_calls, last>>

\* rslt = bme69x_set_heatr_conf(BME69X_SEQUENTIAL_MODE, &hc, bme) with main's
\* tables and any profile_len
ApiSetHeatrConf ==
    /\ pc = "api"
    /\ \E h \in Handles, len \in 0 .. MaxProfileLen :
          LET hc == [MainHeatrConf EXCEPT !.profile_len = len] IN
          /\ rslt' \in SetHeatrConfResults(bme[h], hc)
          /\ sensor' = IF rslt' = "BME69X_OK"
                       THEN [sensor EXCEPT !.profile_len = len]
                       ELSE sensor
          /\ last' = [api |-> "bme69x_set_heatr_conf", h |-> h, profile_len |-> len]
    /\ UNCHANGED <<pc, msg, bme, dev_addr, init_ok, conf, heatr_conf, del_period,
                   delayed, n_fields, data, sample_count, printed, n_printed,
                   polls, failed, deinit_calls>>

\* register addresses a caller passes to a bus callback
RegAddrs == {0, 255}

\* lengths (uint32_t) a caller passes to a bus callback
Lens == {1, 65535, 65536, 65537}

\* results of a COINES bus call: COINES_SUCCESS, COINES_E_FAILURE,
\* COINES_E_COMM_IO_ERROR
CoinesResults == {0, -1, -2}

\* bme[h].read(reg, buf, len, bme[h].intf_ptr) or bme[h].write(...) on a handle
\* whose callbacks are set
ApiBusCall ==
    /\ pc = "api"
    /\ \E h \in Handles, op \in {"read", "write"}, reg \in RegAddrs, len \in Lens,
          res \in CoinesResults :
          /\ HandleUsable(bme[h])
          /\ last' = [api |-> bme[h][op], h |-> h, reg |-> reg, len |-> len,
                      txns |-> ShimTransactions(bme[h][op],
                                   AddrUsedBy(bme[h], dev_addr), reg, len),
                      coines_rslt |-> res, ret |-> ShimReturn(res)]
    /\ UNCHANGED <<pc, rslt, msg, bme, dev_addr, init_ok, conf, heatr_conf,
                   del_period, delayed, n_fields, data, sample_count, printed,
                   n_printed, polls, failed, deinit_calls, sensor>>

\* a caller that holds any settings in its struct bme69x_conf
DurInit ==
    /\ pc = "api"
    /\ rslt = Uninit
    /\ msg = "none"
    /\ bme = [h \in Handles |-> UninitHandle]
    /\ dev_addr = "0"
    /\ init_ok = {}
    /\ \E ot \in OsCodes, op \in OsCodes, oh \in OsCodes, f \in FilterCodes :
          conf = [os_hum |-> oh, os_pres |-> op, os_temp |-> ot,
                  filter |-> f, odr |-> ExampleConf.odr]
    /\ heatr_conf = Uninit
    /\ del_period = Uninit
    /\ delayed = 0
    /\ n_fields = 0
    /\ data = [i \in 1 .. DataLen |-> 0]
    /\ sample_count = 1
    /\ printed = <<>>
    /\ n_printed = 0
    /\ polls = 0
    /\ failed = {}
    /\ deinit_calls = 0
    /\ last = NoCall
    /\ sensor = [conf |-> ResetConf, profile_len |-> 0,
                 op_mode |-> "BME69X_SLEEP_MODE", cursor |-> 0]

\* bme69x_get_meas_dur(op_mode, &conf, &bme) called directly with the caller's
\* settings
ApiGetMeasDur ==
    /\ pc = "api"
    /\ \E op_mode \in {"BME69X_FORCED_MODE", "BME69X_PARALLEL_MODE",
                       "BME69X_SEQUENTIAL_MODE"} :
          last' = [api |-> "bme69x_get_meas_dur", op_mode |-> op_mode, conf |-> conf,
                   dur |-> bme69x_get_meas_dur(op_mode, conf)]
    /\ UNCHANGED <<pc, rslt, msg, bme, dev_addr, init_ok, conf, heatr_conf,
                   del_period, delayed, n_fields, data, sample_count, printed,
                   n_printed, polls, failed, deinit_calls, sensor>>

NextDur == ApiGetMeasDur

SpecDur == DurInit /\ [][NextDur]_vars

NextIntf ==
    \/ ApiInterfaceInit
    \/ ApiCheckRslt

\* callers that initialise handles and apply heater profiles
NextHeatr ==
    \/ ApiInterfaceInit
    \/ ApiSetHeatrConf

SpecHeatr == ApiInit /\ [][NextHeatr]_vars

\* callers that initialise handles and use their bus callbacks
NextBus ==
    \/ ApiInterfaceInit
    \/ ApiBusCall

SpecBus == ApiInit /\ [][NextBus]_vars

SpecIntf == ApiInit /\ [][NextIntf]_vars

---------------------------------------------------------------------------
(* Properties *)

\* the protocol phase main is in at each of its positions
SmState ==
    CASE pc \in {"interface_init", "init", "get_conf", "set_conf", "set_heatr_conf"}
             -> "IDLE"
      [] pc = "set_op_mode" -> "CONFIGURED"
      [] pc = "while" /\ polls = 0 -> "ARMED"
      [] pc = "get_data" -> "POLLING"
      [] pc \in {"for", "while"} /\ rslt = "BME69X_OK" -> "DATA_READY"
      [] pc \in {"for", "while"} /\ rslt = "BME69X_W_NO_NEW_DATA" -> "NO_DATA"
      [] pc \in {"for", "while"} -> "POLLING"
      [] pc \in {"deinit", "done"} -> "SHUTDOWN"
      [] OTHER -> "EXITED"

\* the wait the protocol asks for before a poll: the measurement duration of
\* main's configuration plus the first heater step, in microseconds
RequiredWait ==
    bme69x_get_meas_dur("BME69X_SEQUENTIAL_MODE", conf)
    + heatr_conf.heatr_dur_prof[1] * 1000

\* C1: every bme69x_get_data call is made with exactly one blocking delay of
\* measurement duration + first heater step (ms x 1000) microseconds executed
\* since the previous poll, or since set_op_mode for the first poll; the poll
\* starts the next waiting period.
C1_PollOnlyAfterFullWait ==
    [][polls' # polls => delayed = RequiredWait /\ delayed' = 0]_vars

\* C1 witness: main is about to poll a second time, having slept the 142590
\* microseconds of the example's settings since the first poll.
C1_Witness ==
    /\ pc = "get_data"
    /\ polls >= 1
    /\ delayed = 142590

\* C2: bme69x_set_op_mode and the polls are issued only when neither
\* bme69x_set_conf nor bme69x_set_heatr_conf has returned a failure.
C2_ArmedOnlyAfterBothSucceeded ==
    pc \in {"while", "get_data", "for", "deinit", "done"}
        => failed \cap {"bme69x_set_conf", "bme69x_set_heatr_conf"} = {}

\* C3: a poll that returns BME69X_W_NO_NEW_DATA is reported as a warning and
\* does not end the process; its for loop prints no record and leaves
\* sample_count as it was; and the next poll is made only after another full
\* wait.
C3_NoNewDataIsNotFatal ==
    [][/\ (pc = "get_data" /\ rslt' = "BME69X_W_NO_NEW_DATA")
              => (pc' = "for" /\ msg' = "Warning: No new data found")
       /\ (pc = "for" /\ rslt = "BME69X_W_NO_NEW_DATA")
              => (pc' = "while" /\ n_printed' = 0 /\ printed' = <<>>
                  /\ sample_count' = sample_count)
       /\ (pc = "while" /\ rslt = "BME69X_W_NO_NEW_DATA")
              => (pc' \in {"get_data", "deinit"}
                  /\ (pc' = "get_data" => delayed' = RequiredWait))]_vars

\* C3 witness: after a poll that brought records and a poll that brought none,
\* main has slept the full wait again and is about to poll a third time.
C3_Witness ==
    /\ pc = "get_data"
    /\ rslt = "BME69X_W_NO_NEW_DATA"
    /\ polls >= 2
    /\ sample_count > 1
    /\ n_printed = 0
    /\ delayed = RequiredWait

\* C4: when bme69x_init fails (communication failure or device not found) the
\* process is aborted, so nothing is configured, armed or polled after it.
C4_InitFailureAborts ==
    "bme69x_init" \in failed => pc = "exited"

\* C5: when bme69x_set_conf or bme69x_set_heatr_conf has failed, the
\* configuration and the profile main computes the wait from are the ones the
\* sensor last had applied, not the ones whose application failed.
C5_FailedConfigNotEffective ==
    pc = "get_data" =>
        /\ "bme69x_set_conf" \in failed => conf = sensor.conf
        /\ "bme69x_set_heatr_conf" \in failed
               => heatr_conf.profile_len = sensor.profile_len

\* C6: a call that returns BME69X_E_COM_FAIL leaves the protocol phase and the
\* sensor's operating mode as they were before the call.
C6_ComFailLeavesStateUnchanged ==
    [][(rslt' = "BME69X_E_COM_FAIL" /\ pc' # pc)
          => (SmState' = SmState /\ sensor'.op_mode = sensor.op_mode)]_vars

\* C7: after a poll that failed, the record count the for loop iterates over
\* is zero.
C7_FailedPollEmitsNothing ==
    (pc = "for" /\ IsError(rslt)) => n_fields = 0

\* C8: every handle for which bme69x_interface_init returned BME69X_OK has its
\* read, write and delay_us callbacks and its intf_ptr set.
C8_InitOkSetsCallbacks ==
    \A h \in init_ok :
        /\ bme[h].read # Uninit
        /\ bme[h].write # Uninit
        /\ bme[h].delay_us # Uninit
        /\ bme[h].intf_ptr # Uninit

\* the sensor was armed in sequential mode with main's heater profile applied
ArmedWithProfile ==
    /\ sensor.op_mode = "BME69X_SEQUENTIAL_MODE"
    /\ sensor.profile_len = heatr_conf.profile_len

\* C9: once the sensor is armed in sequential mode with the profile applied,
\* every record main takes from a poll carries a gas_index within
\* [0, steps.length) of that profile.
C9_GasIndexWithinProfile ==
    ArmedWithProfile =>
        \A i \in DOMAIN printed :
            printed[i] >= 0 /\ printed[i] < sensor.profile_len

\* C10: once the sensor is armed in sequential mode with the profile applied,
\* the k-th record main takes from its polls (k = 0, 1, 2, ...) carries
\* gas_index k mod steps.length.
C10_GasIndexCyclic ==
    ArmedWithProfile =>
        \A i \in DOMAIN printed :
            printed[i] = (sample_count - 1 - n_printed + (i - 1)) % sensor.profile_len

C13_DurationMonotoneFilterFree ==
    last.api = "bme69x_get_meas_dur" =>
        LET c == last.conf
            m == last.op_mode
        IN  /\ last.dur = bme69x_get_meas_dur(m, c)
            /\ \A fld \in OsFields : \A v \in OsCodes :
                   v > c[fld] =>
                       /\ bme69x_get_meas_dur(m, [c EXCEPT ![fld] = v]) > last.dur
                       /\ DelPeriod([c EXCEPT ![fld] = v], MainHeatrConf)
                              > DelPeriod(c, MainHeatrConf)
            /\ \A f \in FilterCodes :
                   /\ bme69x_get_meas_dur(m, [c EXCEPT !.filter = f]) = last.dur
                   /\ DelPeriod([c EXCEPT !.filter = f], MainHeatrConf)
                          = DelPeriod(c, MainHeatrConf)

\* C13 witness: the estimate was taken for main's settings but with a filter
\* on and 8x temperature oversampling, so that a higher level exists.
C13_Witness ==
    /\ last.api = "bme69x_get_meas_dur"
    /\ last.op_mode = "BME69X_SEQUENTIAL_MODE"
    /\ last.conf = [ExampleConf EXCEPT !.filter = 3, !.os_temp = 4]
    /\ last.dur = 54368

\* the records printed so far over all passes of the for loop: sample_count
\* starts at 1 and is incremented once with every record printed
TotalPrinted == sample_count - 1

\* C14: when the loop has exited, the number of records printed is exactly
\* SAMPLE_COUNT, whatever numbers of fields (0 .. 3) the polls returned.
C14_ExactlySampleCountPrinted ==
    pc \in {"deinit", "done"} => TotalPrinted = SAMPLE_COUNT

\* C15: initialising another handle with bme69x_interface_init leaves the
\* device address used by the read/write callbacks of every handle initialised
\* before unchanged.
C15_SecondInitKeepsFirstAddress ==
    [][\A h \in init_ok :
          (last'.api = "bme69x_interface_init" /\ last'.h # h)
              => AddrUsedBy(bme'[h], dev_addr') = AddrUsedBy(bme[h], dev_addr)]_vars

\* C16: every call of a bus callback issues exactly one bus transaction, with
\* the device address read through intf_ptr, the register and the length it
\* was given, and returns that transaction's result as it is, success or
\* failure.
C16_ShimOneTransactionAsGiven ==
    last.api \in Shims =>
        /\ Len(last.txns) = 1
        /\ last.txns[1].fn = CoinesFn(last.api)
        /\ last.txns[1].dev_addr = AddrUsedBy(bme[last.h], dev_addr)
        /\ last.txns[1].reg_addr = last.reg
        /\ last.txns[1].count = last.len
        /\ last.ret = last.coines_rslt

\* C17: with a sensor that delivers at least one new field on polls infinitely
\* often, the loop ends and bme69x_coines_deinit is reached; a pass whose poll
\* found nothing leaves sample_count as it was, so nothing but new fields
\* brings the loop closer to its end.
C17_LoopTerminates ==
    /\ <>(pc = "done" /\ deinit_calls = 1)
    /\ [][(pc = "for" /\ n_fields = 0)
             => (pc' = "while" /\ sample_count' = sample_count)]_vars

\* C17 witness: the loop was left with the count above SAMPLE_COUNT and the
\* bridge was closed.
C17_Witness ==
    /\ pc = "done"
    /\ deinit_calls = 1
    /\ sample_count > SAMPLE_COUNT
    /\ TotalPrinted >= SAMPLE_COUNT

\* the positions of main at which the next statement is a sensor operation
SensorOpPositions ==
    {"init", "get_conf", "set_conf", "set_heatr_conf", "set_op_mode", "get_data"}

\* sensor operations happen with the transport installed and before
\* bme69x_coines_deinit; the deinit is made only with the count above
\* SAMPLE_COUNT
OpsBetweenInitAndDeinit ==
    /\ pc \in SensorOpPositions
           => /\ MainHandle \in init_ok
              /\ HandleUsable(bme[MainHandle])
              /\ deinit_calls = 0
    /\ deinit_calls >= 1 => sample_count > SAMPLE_COUNT

\* once bme69x_coines_deinit has been called nothing more is done: no delay,
\* no poll, no change of the sensor or of the handle
NothingAfterDeinit ==
    [][deinit_calls >= 1 => /\ delayed' = delayed
                            /\ polls' = polls
                            /\ sensor' = sensor
                            /\ bme' = bme
                            /\ deinit_calls' = deinit_calls]_vars

\* C18: sensor operations happen after bme69x_interface_init installed the
\* transport and before bme69x_coines_deinit; every execution that has ended
\* has called bme69x_coines_deinit exactly once, with at least SAMPLE_COUNT
\* samples counted; nothing on the handle follows the deinit.
C18_DeinitExactlyOnceAfterLoop ==
    /\ [](OpsBetweenInitAndDeinit
          /\ (pc \in {"exited", "done"} => deinit_calls = 1))
    /\ NothingAfterDeinit

\* C18 as amended: bme69x_coines_deinit is called at most once, exactly once
\* by every execution that reaches the end of main and not at all by one that
\* leaves through exit() inside bme69x_interface_init; the rest as above.
C18_DeinitOnceAtEndOfMain ==
    /\ [](OpsBetweenInitAndDeinit
          /\ deinit_calls <= 1
          /\ (pc = "done" <=> deinit_calls = 1)
          /\ (pc = "exited" => deinit_calls = 0))
    /\ NothingAfterDeinit

\* C18 witness: main has returned after one deinit, the count above
\* SAMPLE_COUNT, the transport still installed.
C18_Witness ==
    /\ pc = "done"
    /\ deinit_calls = 1
    /\ sample_count > SAMPLE_COUNT
    /\ HandleUsable(bme[MainHandle])

====
